---- MODULE Spec2Model ----
(***************************************************************************)
(* A model of the training orchestration core of odin-ai:                  *)
(*   - Trainer.fit, the training loop engine      (odin/exp/trainer.py)    *)
(*   - Trainer.early_stop, the early-stop policy  (odin/exp/trainer.py)    *)
(*   - Experimenter._run, the lifecycle controller                         *)
(*                                             (odin/exp/experimenter.py)  *)
(*   - Experimenter.hash_config, parse_overrides, run and                  *)
(*     ParallelLauncher.launch                 (odin/exp/experimenter.py)  *)
(*   - Experimenter.load_configuration and hash                            *)
(*                                             (odin/exp/experimenter.py)  *)
(*   - Trainer.save_checkpoint, save_weights and restore_weights           *)
(*                                                (odin/exp/trainer.py)    *)
(* Each part has its own specification (SpecFit, SpecEarlyStop, SpecRun,   *)
(* SpecHash, SpecOverrides, SpecLaunch, SpecDispatch, SpecHashOverrides,   *)
(* SpecCheckpoint, SpecCheckpointRace, SpecWeights); the variables of the  *)
(* other parts stay at their initial value.                                *)
(***************************************************************************)
EXTENDS Integers, Sequences, FiniteSets, TLC

(***************************************************************************)
(* Bounds of the model                                                     *)
(***************************************************************************)
\* largest number of batches a training source yields
MaxBatches == 3
\* largest explicit max_iter argument passed to fit
MaxBudget == 2
\* a fit call is followed for this many seconds of wall-clock time
MaxTime == 2
\* fit is not started once the iteration counter could pass this value
MaxNIter == 21
\* longest loss history passed to early_stop
MaxLosses == 3
\* largest progress_length passed to early_stop
MaxProgress == 3
\* number of distinct contents of a model directory
MaxContent == 2
\* number of _run calls followed
MaxRuns == 3

\* largest leaf value of a configuration
MaxValue == 2
\* largest number of exclude keys
MaxExclude == 2

\* largest number of override expressions
MaxOverrides == 2

\* largest number of jobs of a sweep
MaxJobs == 3
\* largest number of pool workers
MaxCpu == 2

\* number of save_checkpoint calls followed
MaxCalls == 3

\* largest weights of an object
MaxWeight == 2
\* largest number of objects given to save_weights and restore_weights
MaxModels == 2

(***************************************************************************)
(* Program constants                                                       *)
(***************************************************************************)
\* default of fit's logging_interval argument (seconds)
logging_interval == 3
\* the valid_freq of the validation-cadence scenario
ValidFreq10 == 10
\* progress.start_t, the epoch time at which the progress bar is created;
\* the clock of the model counts the seconds since then, so that the epoch
\* origin (the 0 of last_print_time, line 656) lies start_t seconds before it
start_t == 1000

VARIABLES
  \* ---- Trainer object
  n_iter,              \* Trainer.n_iter
  is_training,         \* Trainer._is_training
  current_valid_loss,  \* len(Trainer._current_valid_loss)
  \* ---- arguments and locals of the running fit call
  pc,                  \* "idle" (no fit running), "loop", "exit" (loop
                       \* left by break), "final" (train() has ended)
  train_ds,            \* [len: number of batches, has_len: source has __len__]
  arg_max_iter,        \* max_iter as passed by the caller
  arg_valid_freq,      \* valid_freq as passed by the caller
  max_iter,            \* max_iter after the defaulting of line 596
  valid_freq,          \* after lines 604-607
  valid_interval,
  terminate_on_nan,
  valid_ds,            \* TRUE iff a validation set was given
  cur_iter,            \* index of enumerate(progress)
  last_print_time,
  last_valid_time,
  now,                 \* progress._time() - progress.start_t
  \* ---- observations of the running / last fit call
  obs,                 \* counters and flags of the fit call
  lastIter,            \* what the latest loop iteration did
  \* ---- Trainer.early_stop
  es,
  \* ---- Experimenter._run
  exp,
  \* ---- Experimenter.hash_config
  hc,
  \* ---- Experimenter.parse_overrides
  po,
  \* ---- ParallelLauncher.launch
  ln,
  \* ---- Experimenter.run
  rn,
  \* ---- Experimenter.hash
  hs,
  \* ---- _CHECKPOINT_MANAGER and the Trainer.save_checkpoint calls
  ck,
  \* ---- _BEST_WEIGHTS and the weights of the models
  bw

trainerVars == <<n_iter, is_training, current_valid_loss>>
fitVars == <<pc, train_ds, arg_max_iter, arg_valid_freq, max_iter, valid_freq, valid_interval,
             terminate_on_nan, valid_ds, cur_iter, last_print_time,
             last_valid_time, now>>
obsVars == <<obs, lastIter>>
staticVars == <<hc, po>>
dispatchVars == <<ln, rn>>
globalVars == <<ck, bw>>
vars == <<trainerVars, fitVars, obsVars, es, exp, staticVars, dispatchVars, hs,
          globalVars>>

Max(a, b) == IF a >= b THEN a ELSE b
Min(a, b) == IF a <= b THEN a ELSE b

(***************************************************************************)
(* Trainer.fit                                                             *)
(***************************************************************************)
\* the values an optimize call can return as loss
Losses == {"finite", "nan", "inf"}

\* values of the caller's arguments
MaxIterArgs == {-1, MaxBudget}
ValidFreqArgs == {0, ValidFreq10}
ValidIntervalArgs == {0, 1}

NoIter == [n |-> 0, stepped |-> FALSE, loss |-> "none", logged |-> FALSE,
           reached |-> FALSE, validated |-> FALSE, ticked |-> FALSE,
           cbStops |-> FALSE, since |-> 0]

NoObs == [optCalls |-> 0, cbCalls |-> 0, finalCb |-> 0, ticks |-> 0,
          tickEnd |-> 0,
          nonFinite |-> FALSE, optAfterNonFinite |-> FALSE,
          stopReq |-> FALSE, optAfterStop |-> FALSE,
          cbStopped |-> FALSE,
          exit |-> "none", returned |-> FALSE,
          nStart |-> 0]

\* Trainer.__init__
TrainerInit ==
  /\ n_iter = 0
  /\ is_training = FALSE
  /\ current_valid_loss = 0
  /\ pc = "idle"
  /\ train_ds = [len |-> 0, has_len |-> FALSE]
  /\ arg_max_iter = -1
  /\ arg_valid_freq = 1
  /\ max_iter = -1
  /\ valid_freq = 1
  /\ valid_interval = 0
  /\ terminate_on_nan = TRUE
  /\ valid_ds = FALSE
  /\ cur_iter = 0
  /\ last_print_time = 0
  /\ last_valid_time = 0
  /\ now = 0
  /\ obs = NoObs
  /\ lastIter = NoIter

\* line 596-597: the budget defaults to the length of the source
DefaultMaxIter(ds, m) == IF ds.has_len /\ m <= 0 THEN ds.len ELSE m

\* lines 604-607: the effective valid_freq
EffectiveValidFreq(freq, interval) == IF interval > 0 THEN 1 ELSE Max(1, freq)

\* (variant: the budget check compares with > instead of >=)
OverBudgetLate(m, i) == m > 0 /\ i > m

\* line 661: the budget check at the top of an iteration
OverBudget(m, i) == m > 0 /\ i >= m

\* (variant: the guard tests only for NaN)
NanGuardNanOnly(ton, loss) == ton /\ loss = "nan"

\* line 670: terminate_on_nan and np.isnan(loss) or np.isinf(loss)
NanGuard(ton, loss) == (ton /\ loss = "nan") \/ loss = "inf"

\* line 678: interval >= logging_interval
LogDue(t, lastPrint) == t - lastPrint >= logging_interval

\* (variant: the interval test is strict)
ValidDueStrict(n, freq, t, lastValid, interval) ==
  n % freq = 0 /\ t - lastValid > interval

\* line 690: self.n_iter % valid_freq == 0 and interval >= valid_interval
ValidDue(n, freq, t, lastValid, interval) ==
  n % freq = 0 /\ t - lastValid >= interval

\* (variant: the flag is not looked at after the callback)
StopIgnored(training) == FALSE

\* line 704: if not self.is_training: break
StopObserved(training) == ~training

\* (variant: the time of the tick is not recorded)
KeepValidTime(t, lastValid) == lastValid

\* line 706: last_valid_time = progress._time()
NextValidTime(t, lastValid) == t

\* (variant: the callback is called only when a validation was made)
CallbackIfValidated(o, vds) ==
  IF vds THEN [o EXCEPT !.cbCalls = @ + 1] ELSE o

\* line 703: callback(), called at every tick, with or without validation
TickCallback(o, vds) == [o EXCEPT !.cbCalls = @ + 1]

\* (variant: no callback after the loop)
NoFinalCallback(o) == o

\* line 709: the final callback
FinalCallback(o) == [o EXCEPT !.cbCalls = @ + 1, !.finalCb = @ + 1]

\* lines 542-657: fit up to the first iteration of train()
Fit(ds, m, freq, interval, ton, vds) ==
  /\ pc = "idle"
  /\ n_iter + ds.len <= MaxNIter
  /\ pc' = "loop"
  /\ train_ds' = ds
  /\ arg_max_iter' = m
  /\ arg_valid_freq' = freq
  /\ max_iter' = DefaultMaxIter(ds, m)
  /\ valid_freq' = EffectiveValidFreq(freq, interval)
  /\ valid_interval' = interval
  /\ terminate_on_nan' = ton
  /\ valid_ds' = vds
  /\ current_valid_loss' = 0
  /\ is_training' = TRUE
  /\ cur_iter' = 0
  /\ now' = 0
  /\ last_print_time' = 0 - start_t
  /\ last_valid_time' = 0
  /\ obs' = [NoObs EXCEPT !.nStart = n_iter]
  /\ lastIter' = NoIter
  /\ UNCHANGED <<n_iter, es, exp, staticVars, dispatchVars, hs, globalVars>>

\* lines 658-706: one iteration of the loop of train(), with a batch drawn.
\*   loss     : the loss optimize returns
\*   dtOpt    : seconds taken by the optimize call (validation and
\*              callback take less than the clock's resolution)
\*   optStops : optimize clears is_training (calls terminate())
\*   cbStops  : the callback clears is_training (calls terminate())
\* An input the iteration does not consume is fixed (FALSE, 0, "finite").
TrainStep(loss, dtOpt, optStops, cbStops) ==
  /\ pc = "loop"
  /\ cur_iter < train_ds.len
  /\ LET n == n_iter + 1
         t1 == now + dtOpt
         training1 == is_training /\ ~optStops
         logged == LogDue(t1, last_print_time)
         tick == ValidDue(n, valid_freq, t1, last_valid_time, valid_interval)
         training2 == training1 /\ ~cbStops
         stepped == [obs EXCEPT
                       !.optCalls = @ + 1,
                       !.nonFinite = @ \/ loss # "finite",
                       !.optAfterNonFinite = @ \/ obs.nonFinite,
                       !.stopReq = @ \/ optStops,
                       !.optAfterStop = @ \/ ~is_training]
     IN
     /\ n_iter' = n
     /\ IF OverBudget(max_iter, cur_iter)
        THEN /\ loss = "finite" /\ dtOpt = 0 /\ ~optStops
             /\ ~cbStops
             /\ pc' = "exit"
             /\ obs' = [obs EXCEPT !.exit = "budget"]
             /\ lastIter' = [NoIter EXCEPT !.n = n]
             /\ UNCHANGED <<is_training, current_valid_loss, cur_iter,
                            last_print_time, last_valid_time, now>>
        ELSE IF NanGuard(terminate_on_nan, loss)
        THEN /\ ~cbStops
             /\ t1 <= MaxTime
             /\ pc' = "exit"
             /\ now' = t1
             /\ is_training' = training1
             /\ obs' = [stepped EXCEPT !.exit = "nan"]
             /\ lastIter' = [NoIter EXCEPT !.n = n, !.stepped = TRUE,
                                           !.loss = loss]
             /\ UNCHANGED <<current_valid_loss, cur_iter, last_print_time,
                            last_valid_time>>
        ELSE IF ~tick
        THEN /\ ~cbStops
             /\ t1 <= MaxTime
             /\ pc' = "loop"
             /\ now' = t1
             /\ is_training' = training1
             /\ last_print_time' = IF logged THEN t1 ELSE last_print_time
             /\ cur_iter' = cur_iter + 1
             /\ obs' = stepped
             /\ lastIter' = [NoIter EXCEPT !.n = n, !.stepped = TRUE,
                                           !.loss = loss, !.logged = logged,
                                           !.reached = TRUE]
             /\ UNCHANGED <<current_valid_loss, last_valid_time>>
        ELSE /\ t1 <= MaxTime
             /\ now' = t1
             /\ is_training' = training2
             /\ last_print_time' = IF logged THEN t1 ELSE last_print_time
             /\ current_valid_loss' =
                  IF valid_ds THEN current_valid_loss + 1
                              ELSE current_valid_loss
             /\ obs' = [TickCallback(stepped, valid_ds) EXCEPT
                          !.ticks = @ + 1,
                          !.tickEnd = t1,
                          !.stopReq = @ \/ cbStops,
                          !.cbStopped = @ \/ cbStops,
                          !.exit = IF StopObserved(training2)
                                   THEN "stopped" ELSE @]
             /\ lastIter' = [n |-> n, stepped |-> TRUE, loss |-> loss,
                             logged |-> logged, reached |-> TRUE,
                             validated |-> valid_ds, ticked |-> TRUE,
                             cbStops |-> cbStops,
                             since |-> t1 - obs.tickEnd]
             /\ IF StopObserved(training2)
                THEN /\ pc' = "exit"
                     /\ UNCHANGED <<cur_iter, last_valid_time>>
                ELSE /\ pc' = "loop"
                     /\ cur_iter' = cur_iter + 1
                     /\ last_valid_time' = NextValidTime(t1, last_valid_time)
  /\ UNCHANGED <<train_ds, arg_max_iter, arg_valid_freq, max_iter, valid_freq,
                 valid_interval, terminate_on_nan, valid_ds, es, exp,
                 staticVars, dispatchVars, hs, globalVars>>

\* lines 708-712: the loop of train() is over (source exhausted, or left by
\* a break): the final callback, and train() ends; its progress bar is
\* closed and its locals go out of scope.
TrainEnd(cbStops) ==
  /\ \/ pc = "exit"
     \/ pc = "loop" /\ cur_iter >= train_ds.len
  /\ pc' = "final"
  /\ is_training' = (is_training /\ ~cbStops)
  /\ obs' = [FinalCallback(obs) EXCEPT
               !.returned = TRUE,
               !.tickEnd = 0,
               !.exit = IF pc = "loop" THEN "exhausted" ELSE @]
  /\ cur_iter' = 0
  /\ last_print_time' = 0
  /\ last_valid_time' = 0
  /\ now' = 0
  /\ lastIter' = NoIter
  /\ UNCHANGED <<n_iter, current_valid_loss, train_ds, arg_max_iter,
                 arg_valid_freq, max_iter, valid_freq, valid_interval,
                 terminate_on_nan, valid_ds, es, exp, staticVars, dispatchVars,
                 hs, globalVars>>

\* lines 721-731: fit flushes the log, clears _current_valid_loss and
\* returns; its arguments and locals go out of scope.
FitReturn ==
  /\ pc = "final"
  /\ pc' = "idle"
  /\ current_valid_loss' = 0
  /\ train_ds' = [len |-> 0, has_len |-> FALSE]
  /\ arg_max_iter' = -1
  /\ arg_valid_freq' = 1
  /\ max_iter' = -1
  /\ valid_freq' = 1
  /\ valid_interval' = 0
  /\ terminate_on_nan' = TRUE
  /\ valid_ds' = FALSE
  /\ obs' = NoObs
  /\ UNCHANGED <<n_iter, is_training, cur_iter, last_print_time,
                 last_valid_time, now, lastIter, es, exp, staticVars,
                 dispatchVars, hs, globalVars>>

\* the variables of the parts a specification leaves out
EsIdle == es = "unused"
ExpIdle == exp = "unused"
FitIdle == TrainerInit
HcIdle == hc = "unused"
PoIdle == po = "unused"
LnIdle == ln = "unused"
RnIdle == rn = "unused"
StaticIdle == HcIdle /\ PoIdle
DispatchIdle == LnIdle /\ RnIdle
HsIdle == hs = "unused"
CkIdle == ck = "unused"
BwIdle == bw = "unused"
GlobalIdle == CkIdle /\ BwIdle

InitFit == TrainerInit /\ EsIdle /\ ExpIdle /\ StaticIdle /\ DispatchIdle
  /\ HsIdle /\ GlobalIdle

NextFit ==
  \/ \E len \in 0 .. MaxBatches, hl \in BOOLEAN, m \in MaxIterArgs,
        freq \in ValidFreqArgs, interval \in ValidIntervalArgs,
        ton \in BOOLEAN, vds \in BOOLEAN :
       Fit([len |-> len, has_len |-> hl], m, freq, interval, ton, vds)
  \/ \E loss \in Losses, dtOpt \in 0 .. 1,
        optStops \in BOOLEAN, cbStops \in BOOLEAN :
       TrainStep(loss, dtOpt, optStops, cbStops)
  \/ \E cbStops \in BOOLEAN : TrainEnd(cbStops)
  \/ FitReturn

SpecFit == InitFit /\ [][NextFit]_vars

(***************************************************************************)
(* Trainer.early_stop                                                      *)
(*                                                                         *)
(* Losses are strictly positive and given in hundredths (95 is 0.95).      *)
(* The arithmetic of the function is done on fractions [n, d]: d > 0 is    *)
(* the number n/d, and d = 0 is what a float division by zero gives        *)
(* (n > 0: +inf, n < 0: -inf, n = 0: nan).  Fractions are exact, so a      *)
(* comparison that a 64-bit float decides by its rounding error alone is   *)
(* outside the model.                                                      *)
(***************************************************************************)
LossValues == {50, 90, 95, 100}
Thresholds == {[n |-> 0, d |-> 1], [n |-> 1, d |-> 100], [n |-> -1, d |-> 100]}
ProgressLengths == {0} \cup (2 .. MaxProgress)
MinEpochs == {-1, 3}

Sign(x) == IF x > 0 THEN 1 ELSE IF x < 0 THEN -1 ELSE 0
Abs(x) == IF x < 0 THEN -x ELSE x
Frac(n, d) == [n |-> n, d |-> d]
\* a / b in float arithmetic, a and b finite
FDiv(a, b) ==
  IF b.n = 0 THEN Frac(Sign(a.n), 0)
  ELSE Frac(a.n * b.d * Sign(b.n), a.d * Abs(b.n))
FSub(a, b) == Frac(a.n * b.d - b.n * a.d, a.d * b.d)
FMul(a, b) == Frac(a.n * b.n, a.d * b.d)
FNeg(a) == Frac(-a.n, a.d)
FAbs(a) == Frac(Abs(a.n), a.d)
\* a >= b, b finite; nan compares false, +inf true, -inf false
FGe(a, b) == IF a.d = 0 THEN a.n > 0 ELSE a.n * b.d >= b.n * a.d
FLt(a, b) == a.d # 0 /\ a.n * b.d < b.n * a.d

RECURSIVE SeqSum(_)
SeqSum(s) == IF s = <<>> THEN 0 ELSE Head(s) + SeqSum(Tail(s))
RECURSIVE SeqMin(_)
SeqMin(s) == IF Len(s) = 1 THEN s[1] ELSE Min(Head(s), SeqMin(Tail(s)))
\* losses[:-1]
ButLast(s) == SubSeq(s, 1, Len(s) - 1)
\* losses[-k:], k > 0
LastK(s, k) == IF k >= Len(s) THEN s ELSE SubSeq(s, Len(s) - k + 1, Len(s))

\* line 348: best = np.min(losses[:-1])
Best(losses) == SeqMin(ButLast(losses))

\* line 349: generalization = current / best - 1.
Generalization(losses) ==
  FSub(FDiv(Frac(losses[Len(losses)], 1), Frac(Best(losses), 1)), Frac(1, 1))

\* lines 351-356: progression
Progression(losses, progress_length) ==
  IF progress_length > 1
  THEN LET progress == LastK(losses, progress_length)
       IN FMul(Frac(10, 1),
               FSub(FDiv(Frac(SeqSum(progress), 1),
                         Frac(progress_length * SeqMin(progress), 1)),
                    Frac(1, 1)))
  ELSE Frac(1, 1)

\* lines 359-360: error >= -np.abs(threshold)
Exceeds(error, threshold) == FGe(error, FNeg(FAbs(threshold)))

\* lines 343-368: the return statement early_stop reaches: the name of the
\* Trainer attribute it returns, or "None" when it falls off the end
EarlyStopBranch(losses, threshold, progress_length, min_epoch) ==
  IF Len(losses) < Max(2, min_epoch) THEN "SIGNAL_BEST"
  ELSE LET generalization == Generalization(losses)
           progression == Progression(losses, progress_length)
           error == FDiv(generalization, progression)
       IN IF Exceeds(error, threshold) THEN "SIGNAL_TERMINATE"
          ELSE IF FLt(generalization, Frac(0, 1)) THEN "SIGNAL_BEST"
          ELSE "None"

\* lines 141-843: the SIGNAL_* attributes the class Trainer defines
TrainerSignals == {}

\* the evaluation of Trainer.<name> in a return statement
TrainerAttr(name) ==
  IF name \in TrainerSignals THEN name ELSE "AttributeError"

\* lines 307-368: early_stop, its result or the exception it raises
early_stop(losses, threshold, progress_length, min_epoch) ==
  LET branch == EarlyStopBranch(losses, threshold, progress_length, min_epoch)
  IN IF branch = "None" THEN "None" ELSE TrainerAttr(branch)

RECURSIVE SeqsUpTo(_, _)
SeqsUpTo(S, k) ==
  IF k = 0 THEN {<<>>}
  ELSE LET shorter == SeqsUpTo(S, k - 1)
       IN shorter \cup {Append(q, x) : q \in shorter, x \in S}

\* a call of early_stop about to be made
EsInit ==
  \E losses \in SeqsUpTo(LossValues, MaxLosses), threshold \in Thresholds,
     progress_length \in ProgressLengths, min_epoch \in MinEpochs :
    es = [losses |-> losses, threshold |-> threshold,
          progress_length |-> progress_length, min_epoch |-> min_epoch,
          called |-> FALSE, branch |-> "", result |-> ""]

EarlyStop ==
  /\ ~es.called
  /\ es' = [es EXCEPT
              !.called = TRUE,
              !.branch = EarlyStopBranch(es.losses, es.threshold,
                                         es.progress_length, es.min_epoch),
              !.result = early_stop(es.losses, es.threshold,
                                    es.progress_length, es.min_epoch)]
  /\ UNCHANGED <<trainerVars, fitVars, obsVars, hs, globalVars, exp, staticVars, dispatchVars>>

InitEarlyStop == EsInit /\ FitIdle /\ ExpIdle /\ StaticIdle /\ DispatchIdle
  /\ HsIdle /\ GlobalIdle

NextEarlyStop == EarlyStop

SpecEarlyStop == InitEarlyStop /\ [][NextEarlyStop]_vars

(***************************************************************************)
(* Experimenter._run                                                       *)
(*                                                                         *)
(* The model directory of one configuration is absent, empty or holds one  *)
(* of MaxContent different contents.  The manifest file model.md5 is       *)
(* absent or holds a digest, possibly followed by white space.  Between    *)
(* two runs the files can be changed from outside.                         *)
(***************************************************************************)
Contents == {<<"files", c>> : c \in 1 .. MaxContent}
NoFiles == <<"files", 0>>
AbsentDir == [exists |-> FALSE, files |-> NoFiles]
DirStates == {AbsentDir} \cup [exists : {TRUE}, files : {NoFiles} \cup Contents]

\* odin.utils.crypto.md5_folder: the digest of a directory's content
md5_folder(dir) == <<"md5", dir.files[2]>>

NoManifest == [exists |-> FALSE, digest |-> md5_folder(AbsentDir), ws |-> FALSE]
Manifests ==
  {NoManifest}
    \cup [exists : {TRUE},
          digest : {md5_folder(d) : d \in DirStates \ {AbsentDir}},
          ws : BOOLEAN]

\* line 405: f.read().strip()
Strip(text) == text.digest

\* (variant: the manifest is opened for writing but no digest is written)
Truncated(digest) ==
  [exists |-> TRUE, digest |-> md5_folder(AbsentDir), ws |-> FALSE]

\* line 423: f.write(md5_folder(model_path))
Written(digest) == [exists |-> TRUE, digest |-> digest, ws |-> FALSE]

\* (variant: an existing but empty directory counts as a saved model)
DirExists(dir) == dir.exists

\* lines 400, 421: os.path.exists(model_path)
\*                 and len(os.listdir(model_path)) > 0
HasModel(dir) == dir.exists /\ dir.files # NoFiles

\* line 402: os.path.exists(md5_path) and self.consistent_model
ManifestChecked(md5, consistent_model) == md5.exists /\ consistent_model

\* (variant: the comparison is not made)
Md5Unchecked(md5_loaded, md5_saved) == TRUE

\* line 406: assert md5_loaded == md5_saved
Md5Matches(md5_loaded, md5_saved) == md5_loaded = md5_saved

\* (variant: whatever on_load_model returns is accepted)
ModelAssumed(model) == TRUE

\* lines 409-412: on_load_model must return the model
ModelLoaded(model) == model # "None"

NoRun == [pre_dir |-> AbsentDir, pre_md5 |-> NoManifest, log |-> <<>>,
          returned |-> "", result |-> "", post_dir |-> AbsentDir,
          post_md5 |-> NoManifest]

\* Experimenter.__init__ (line 219), nothing on disk yet
ExpInit ==
  \E consistent_model \in BOOLEAN :
    exp = [consistent_model |-> consistent_model, dir |-> AbsentDir,
           md5 |-> NoManifest, runs |-> 0, last |-> NoRun]

\* lines 383-424: one call of _run.
\*   model   : what on_load_model returns ("None" is the default hook);
\*             the run records it as last.returned when the hook is called
\*   trained : the model directory as on_train leaves it
Run(model, trained) ==
  /\ exp.runs < MaxRuns
  /\ LET begun == <<"snapshot", "on_load_data">>
         restore == HasModel(exp.dir)
         corrupted ==
           /\ restore
           /\ ManifestChecked(exp.md5, exp.consistent_model)
           /\ ~Md5Matches(md5_folder(exp.dir), Strip(exp.md5))
         unloaded == restore /\ ~corrupted /\ ~ModelLoaded(model)
         manifested == HasModel(trained)
         done(log, result, dir, md5) ==
           exp' = [exp EXCEPT
                     !.runs = @ + 1,
                     !.dir = dir,
                     !.md5 = md5,
                     !.last = [pre_dir |-> exp.dir, pre_md5 |-> exp.md5,
                               log |-> log, result |-> result,
                               returned |-> IF restore /\ ~corrupted
                                            THEN model ELSE "",
                               post_dir |-> dir, post_md5 |-> md5]]
     IN IF corrupted
        THEN /\ model = "None" /\ trained = exp.dir
             /\ done(begun, "AssertionError", exp.dir, exp.md5)
        ELSE IF unloaded
        THEN /\ trained = exp.dir
             /\ done(begun \o <<"on_load_model">>, "RuntimeError",
                     exp.dir, exp.md5)
        ELSE /\ ~restore => model = "None"
             /\ done(begun
                       \o (IF restore THEN <<"on_load_model">>
                                      ELSE <<"on_create_model">>)
                       \o <<"on_train">>
                       \o (IF manifested THEN <<"manifest">> ELSE <<>>),
                     "ok", trained,
                     IF manifested THEN Written(md5_folder(trained))
                                   ELSE exp.md5)
  /\ UNCHANGED <<trainerVars, fitVars, obsVars, hs, globalVars, es, staticVars, dispatchVars>>

\* the model directory is changed from outside (files damaged, removed, added)
ChangeModelDir(dir) ==
  /\ exp.runs < MaxRuns
  /\ dir # exp.dir
  /\ exp' = [exp EXCEPT !.dir = dir]
  /\ UNCHANGED <<trainerVars, fitVars, obsVars, hs, globalVars, es, staticVars, dispatchVars>>

\* the manifest file is changed from outside (edited, removed)
ChangeManifest(md5) ==
  /\ exp.runs < MaxRuns
  /\ md5 # exp.md5
  /\ exp' = [exp EXCEPT !.md5 = md5]
  /\ UNCHANGED <<trainerVars, fitVars, obsVars, hs, globalVars, es, staticVars, dispatchVars>>

InitRun == ExpInit /\ FitIdle /\ EsIdle /\ StaticIdle /\ DispatchIdle
  /\ HsIdle /\ GlobalIdle

NextRun ==
  \/ \E model \in {"model", "None"}, trained \in DirStates : Run(model, trained)
  \/ \E dir \in DirStates : ChangeModelDir(dir)
  \/ \E md5 \in Manifests : ChangeManifest(md5)

SpecRun == InitRun /\ [][NextRun]_vars

(***************************************************************************)
(* Experimenter.remove_keys and Experimenter.hash_config                   *)
(*                                                                         *)
(* A string is a sequence of characters.  A configuration is a function    *)
(* from the paths of its entries (sequences of names) to nodes: a node is  *)
(* a nested dictionary or a leaf value.                                    *)
(***************************************************************************)
Has(str, ch) == \E i \in 1 .. Len(str) : str[i] = ch

\* str.split(sep) for a one-character separator
RECURSIVE Split(_, _)
Split(str, sep) ==
  IF ~Has(str, sep) THEN <<str>>
  ELSE LET i == CHOOSE j \in 1 .. Len(str) :
                  str[j] = sep /\ \A k \in 1 .. j - 1 : str[k] # sep
       IN <<SubSeq(str, 1, i - 1)>> \o Split(SubSeq(str, i + 1, Len(str)), sep)

DictNode == [dict |-> TRUE, value |-> 0]
Leaf(v) == [dict |-> FALSE, value |-> v]

IsPrefix(p, q) == Len(p) <= Len(q) /\ SubSeq(q, 1, Len(p)) = p

\* a configuration with the top-level entries s and m, m possibly a
\* dictionary with the entry s; the value 0 stands for "no such entry"
Config(s, m, ms) ==
  LET paths == (IF s > 0 THEN {<< <<"s">> >>} ELSE {})
                 \cup (IF m # "absent" THEN {<< <<"m">> >>} ELSE {})
                 \cup (IF m = "dict" /\ ms > 0
                       THEN {<< <<"m">>, <<"s">> >>} ELSE {})
  IN [p \in paths |->
        IF p = << <<"s">> >> THEN Leaf(s)
        ELSE IF Len(p) = 2 THEN Leaf(ms)
        ELSE IF m = "dict" THEN DictNode ELSE Leaf(1)]

Configs ==
  {Config(s, m, IF m = "dict" THEN ms ELSE 0) :
     s \in 0 .. MaxValue, m \in {"absent", "leaf", "dict"}, ms \in 0 .. MaxValue}

\* the exclude keys tried: s, m, m.s, x, m.x and "m."
ExcludeKeys ==
  {<<"s">>, <<"m">>, <<"m", ".", "s">>, <<"x">>, <<"m", ".", "x">>,
   <<"m", ".">>}

\* lines 231-235: key.split('.') when the key holds a dot
KeyPath(key) == IF Has(key, ".") THEN Split(key, ".") ELSE <<key>>

\* lines 233-234: walking key[:-1] by getattr (attribute access of a
\* DictConfig) reaches a dictionary
Reaches(cfg, path) ==
  \A n \in 1 .. Len(path) - 1 :
    /\ SubSeq(path, 1, n) \in DOMAIN cfg
    /\ cfg[SubSeq(path, 1, n)].dict

\* lines 235, 237: del attr[key[-1]] / del cfg[key], the entry and all below
DelEntry(cfg, path) ==
  [p \in {q \in DOMAIN cfg : ~IsPrefix(path, q)} |-> cfg[p]]

\* lines 230-237: the removal of one key; del raises when the entry is missing
RemoveKey(r, key) ==
  IF r.err THEN r
  ELSE IF ~Reaches(r.cfg, KeyPath(key)) \/ KeyPath(key) \notin DOMAIN r.cfg
  THEN [err |-> TRUE, cfg |-> r.cfg]
  ELSE [err |-> FALSE, cfg |-> DelEntry(r.cfg, KeyPath(key))]

\* lines 222-239
RECURSIVE RemoveFrom(_, _)
RemoveFrom(r, keys) ==
  IF keys = <<>> THEN r
  ELSE RemoveFrom(RemoveKey(r, Head(keys)), Tail(keys))

remove_keys(cfg, keys) == RemoveFrom([err |-> FALSE, cfg |-> cfg], keys)

\* odin.utils.crypto.md5_checksum: the digest of a configuration's content
md5_checksum(cfg) == <<"md5", cfg>>

\* line 250: the first 8 characters of the digest
Prefix8(digest) == <<"[:8]", digest>>

NoFingerprint == Prefix8(md5_checksum(<<>>))

\* lines 241-250
hash_config(cfg, exclude_keys) ==
  LET r == remove_keys(cfg, exclude_keys)
  IN IF r.err THEN [err |-> TRUE, value |-> NoFingerprint]
     ELSE [err |-> FALSE, value |-> Prefix8(md5_checksum(r.cfg))]

NotCalled == [err |-> FALSE, value |-> NoFingerprint]

HcInit ==
  \E c1 \in Configs, c2 \in Configs,
     exclude_keys \in SeqsUpTo(ExcludeKeys, MaxExclude) :
    hc = [c1 |-> c1, c2 |-> c2, exclude_keys |-> exclude_keys, calls |-> 0,
          r1 |-> NotCalled, r2 |-> NotCalled, again |-> NotCalled]

\* hash_config(c1, exclude_keys), hash_config(c2, exclude_keys) and
\* hash_config(c1, exclude_keys) once more, one call per step
HashConfig ==
  /\ hc.calls < 3
  /\ hc' = [hc EXCEPT
              !.calls = @ + 1,
              !.r1 = IF hc.calls = 0
                     THEN hash_config(hc.c1, hc.exclude_keys) ELSE @,
              !.r2 = IF hc.calls = 1
                     THEN hash_config(hc.c2, hc.exclude_keys) ELSE @,
              !.again = IF hc.calls = 2
                        THEN hash_config(hc.c1, hc.exclude_keys) ELSE @]
  /\ UNCHANGED <<trainerVars, fitVars, obsVars, hs, globalVars, es, exp, po, dispatchVars>>

InitHash == HcInit /\ FitIdle /\ EsIdle /\ ExpIdle /\ PoIdle /\ DispatchIdle
  /\ HsIdle /\ GlobalIdle

NextHash == HashConfig

SpecHash == InitHash /\ [][NextHash]_vars

(***************************************************************************)
(* _all_keys and Experimenter.parse_overrides                              *)
(*                                                                         *)
(* An override expression is the string key=value, value a comma-separated *)
(* list of values.                                                         *)
(***************************************************************************)
\* lines 66-67: k = base + "." + k
RECURSIVE JoinDot(_)
JoinDot(path) ==
  IF Len(path) = 1 THEN path[1]
  ELSE path[1] \o <<".">> \o JoinDot(Tail(path))

\* lines 63-71 and 217: the dot-joined keys of every entry, nested ones too
all_keys(cfg) == {JoinDot(path) : path \in DOMAIN cfg}

\* the keys tried in override expressions: s, m.s and x
OverrideKeys == {<<"s">>, <<"m", ".", "s">>, <<"x">>}

\* the value texts tried: "1", "1,2", "2,2", "" and "1,"
ValueTexts ==
  {<<"1">>, <<"1", ",", "2">>, <<"2", ",", "2">>, <<>>, <<"1", ",">>}

\* "%s=%s" % (key, value), lines 51 and 323
Entry(key, value) == key \o <<"=">> \o value

Expressions == {Entry(key, text) : key \in OverrideKeys, text \in ValueTexts}

\* (variant: every key is accepted)
KnownAlways(key, keys) == TRUE

\* line 320: key in self._all_keys
Known(key, keys) == key \in keys

\* line 323: one entry per comma-separated value
RECURSIVE Entries(_, _)
Entries(key, values) ==
  IF values = <<>> THEN <<>>
  ELSE <<Entry(key, Head(values))>> \o Entries(key, Tail(values))

\* (variant: only the first entry of every list is combined)
RECURSIVE ProductFirst(_)
ProductFirst(lists) ==
  IF lists = <<>> THEN << <<>> >>
  ELSE IF Head(lists) = <<>> THEN <<>>
  ELSE LET rest == ProductFirst(Tail(lists))
       IN [k \in 1 .. Len(rest) |-> <<Head(lists)[1]>> \o rest[k]]

\* line 324: itertools.product(*lists), the last list varying fastest
RECURSIVE Product(_)
Product(lists) ==
  IF lists = <<>> THEN << <<>> >>
  ELSE LET rest == Product(Tail(lists))
           first == Head(lists)
       IN [k \in 1 .. Len(first) * Len(rest) |->
             <<first[((k - 1) \div Len(rest)) + 1]>>
               \o rest[((k - 1) % Len(rest)) + 1]]

NoKey == <<>>

\* lines 318-323: the loop over the expressions; it stops at the first
\* expression that does not split in two at "=" or whose key is unknown
RECURSIVE ParseLists(_, _, _)
ParseLists(overrides, keys, lists) ==
  IF overrides = <<>> THEN [err |-> "", key |-> NoKey, lists |-> lists]
  ELSE LET parts == Split(Head(overrides), "=")
       IN IF Len(parts) # 2
          THEN [err |-> "ValueError", key |-> NoKey, lists |-> <<>>]
          ELSE IF ~Known(parts[1], keys)
          THEN [err |-> "AssertionError", key |-> parts[1], lists |-> <<>>]
          ELSE ParseLists(Tail(overrides), keys,
                          Append(lists,
                                 Entries(parts[1], Split(parts[2], ","))))

\* lines 315-325
parse_overrides(overrides, keys) ==
  LET r == ParseLists(overrides, keys, <<>>)
  IN IF r.err # "" THEN [err |-> r.err, key |-> r.key, tuples |-> <<>>]
     ELSE [err |-> "", key |-> NoKey, tuples |-> Product(r.lists)]

PoInit ==
  \E cfg \in Configs, overrides \in SeqsUpTo(Expressions, MaxOverrides) :
    po = [configs |-> cfg, overrides |-> overrides, called |-> FALSE,
          result |-> [err |-> "", key |-> NoKey, tuples |-> <<>>]]

\* parse_overrides(overrides) of an Experimenter with the base configuration
\* po.configs
ParseOverrides ==
  /\ ~po.called
  /\ po' = [po EXCEPT
              !.called = TRUE,
              !.result = parse_overrides(po.overrides, all_keys(po.configs))]
  /\ UNCHANGED <<trainerVars, fitVars, obsVars, hs, globalVars, es, exp, hc, dispatchVars>>

InitOverrides ==
  PoInit /\ FitIdle /\ EsIdle /\ ExpIdle /\ HcIdle /\ DispatchIdle
  /\ HsIdle /\ GlobalIdle

NextOverrides == ParseOverrides

SpecOverrides == InitOverrides /\ [][NextOverrides]_vars

(***************************************************************************)
(* ParallelLauncher.launch                                                 *)
(*                                                                         *)
(* The jobs are numbered from 0 as enumerate numbers them.  A job either   *)
(* returns its JobReturn or raises (as _run does on a corrupted model).    *)
(* With ncpu > 1 the jobs are handed to the worker pool of odin.utils.mpi, *)
(* which yields the results in the order in which the jobs complete.       *)
(***************************************************************************)
\* line 110: the value run_job returns for the job
JobReturn(idx) == <<"JobReturn", idx>>

\* line 111: return (idx, ret)
TaskResult(idx) == <<idx, JobReturn(idx)>>

\* (variant: the results are left in the order of completion)
Unsorted(results) == results

\* line 116: sorted([...]) of the (idx, ret) pairs
Sorted(results) == SortSeq(results, LAMBDA a, b : a[1] < b[1])

\* lines 120, 122: [i[1] for i in runs]
Returns(results) == [k \in 1 .. Len(results) |-> results[k][2]]

\* line 115: self.ncpu > 1
UsesPool(ncpu) == ncpu > 1

LnInit ==
  \E n \in 0 .. MaxJobs, ncpu \in 1 .. MaxCpu :
    \E raises \in [0 .. n - 1 -> BOOLEAN] :
      ln = [n |-> n, ncpu |-> ncpu, raises |-> raises, pc |-> "init",
            job |-> [idx \in 0 .. n - 1 |-> "pending"],
            results |-> <<>>, runs |-> <<>>]

Running == {idx \in DOMAIN ln.job : ln.job[idx] = "running"}
Pending == {idx \in DOMAIN ln.job : ln.job[idx] = "pending"}

\* lines 87-92 and 115: launch is called
Launch ==
  /\ ln.pc = "init"
  /\ ln' = [ln EXCEPT !.pc = IF UsesPool(ln.ncpu) THEN "pool" ELSE "seq"]
  /\ UNCHANGED <<trainerVars, fitVars, obsVars, hs, globalVars, es, exp, staticVars, rn>>

\* line 122: the next run_task call of the list comprehension; an exception
\* of the job leaves launch
SeqRunTask ==
  /\ ln.pc = "seq"
  /\ Pending # {}
  /\ LET idx == CHOOSE i \in Pending : \A j \in Pending : i <= j
     IN ln' = IF ln.raises[idx]
              THEN [ln EXCEPT !.job[idx] = "raised", !.pc = "raised"]
              ELSE [ln EXCEPT !.job[idx] = "done",
                              !.results = Append(@, TaskResult(idx))]
  /\ UNCHANGED <<trainerVars, fitVars, obsVars, hs, globalVars, es, exp, staticVars, rn>>

\* lines 122-123
SeqReturn ==
  /\ ln.pc = "seq"
  /\ Pending = {}
  /\ ln' = [ln EXCEPT !.pc = "returned", !.runs = Returns(ln.results)]
  /\ UNCHANGED <<trainerVars, fitVars, obsVars, hs, globalVars, es, exp, staticVars, rn>>

\* odin.utils.mpi.MPI: a free worker takes a job
PoolStart(idx) ==
  /\ ln.pc = "pool"
  /\ idx \in Pending
  /\ Cardinality(Running) < ln.ncpu
  /\ ln' = [ln EXCEPT !.job[idx] = "running"]
  /\ UNCHANGED <<trainerVars, fitVars, obsVars, hs, globalVars, es, exp, staticVars, rn>>

\* odin.utils.mpi.MPI: a worker completes run_task and its result is yielded
PoolFinish(idx) ==
  /\ ln.pc = "pool"
  /\ idx \in Running
  /\ ~ln.raises[idx]
  /\ ln' = [ln EXCEPT !.job[idx] = "done",
                      !.results = Append(@, TaskResult(idx))]
  /\ UNCHANGED <<trainerVars, fitVars, obsVars, hs, globalVars, es, exp, staticVars, rn>>

\* odin.utils.mpi.MPI: run_task raises in a worker; the pool either goes on
\* without a result for the job or the exception ends the launch
PoolRaise(idx, aborts) ==
  /\ ln.pc = "pool"
  /\ idx \in Running
  /\ ln.raises[idx]
  /\ ln' = [ln EXCEPT !.job[idx] = "raised",
                      !.pc = IF aborts THEN "raised" ELSE @]
  /\ UNCHANGED <<trainerVars, fitVars, obsVars, hs, globalVars, es, exp, staticVars, rn>>

\* lines 116-120 and 123
PoolReturn ==
  /\ ln.pc = "pool"
  /\ Pending = {} /\ Running = {}
  /\ ln' = [ln EXCEPT !.pc = "returned",
                      !.runs = Returns(Sorted(ln.results))]
  /\ UNCHANGED <<trainerVars, fitVars, obsVars, hs, globalVars, es, exp, staticVars, rn>>

InitLaunch == LnInit /\ FitIdle /\ EsIdle /\ ExpIdle /\ StaticIdle /\ RnIdle
  /\ HsIdle /\ GlobalIdle

NextLaunch ==
  \/ Launch
  \/ SeqRunTask
  \/ SeqReturn
  \/ \E idx \in 0 .. MaxJobs - 1 : PoolStart(idx)
  \/ \E idx \in 0 .. MaxJobs - 1 : PoolFinish(idx)
  \/ \E idx \in 0 .. MaxJobs - 1, aborts \in BOOLEAN : PoolRaise(idx, aborts)
  \/ PoolReturn

SpecLaunch == InitLaunch /\ [][NextLaunch]_vars

(***************************************************************************)
(* Experimenter.run                                                        *)
(*                                                                         *)
(* run replaces Hydra.run and Hydra.multirun by its own _run and           *)
(* _multirun and calls run_hydra, which dispatches to Hydra.multirun when  *)
(* the command line holds the multirun flag (-m) and to Hydra.run          *)
(* otherwise.                                                              *)
(***************************************************************************)
\* the override expressions given to run: known keys, one or more values
RunExpressions ==
  {Entry(key, text) : key \in {<<"s">>, <<"m", ".", "s">>},
                      text \in ValueTexts}

\* (variant: the overrides are never taken as a sweep)
NeverMultirun(overrides) == FALSE

\* line 438: is_multirun = any(',' in ovr for ovr in overrides)
IsMultirun(overrides) ==
  \E i \in 1 .. Len(overrides) : Has(overrides[i], ",")

\* the jobs of a sweep: one per combination of the values of the overrides
SweepJobs(overrides) ==
  Product([i \in 1 .. Len(overrides) |->
             LET parts == Split(overrides[i], "=")
             IN Entries(parts[1], Split(parts[2], ","))])

RnInit ==
  \E overrides \in SeqsUpTo(RunExpressions, MaxOverrides),
     multirun \in BOOLEAN :
    rn = [overrides |-> overrides, multirun |-> multirun, pc |-> "init",
          is_multirun |-> FALSE, hooks |-> "hydra", jobs |-> <<>>,
          error |-> ""]

\* lines 433-438 and 475-492: the overrides are joined, is_multirun is
\* computed, the Hydra hooks are replaced and run_hydra is called
RunCall ==
  /\ rn.pc = "init"
  /\ rn' = [rn EXCEPT !.pc = IF rn.multirun THEN "multirun" ELSE "run",
                      !.is_multirun = IsMultirun(rn.overrides),
                      !.hooks = "patched"]
  /\ UNCHANGED <<trainerVars, fitVars, obsVars, hs, globalVars, es, exp, staticVars, ln>>

\* lines 440-455: _run, the single run; the RuntimeError leaves run
SingleRun ==
  /\ rn.pc = "run"
  /\ rn' = IF rn.is_multirun
           THEN [rn EXCEPT !.pc = "raised", !.error = "RuntimeError"]
           ELSE [rn EXCEPT !.pc = "ran", !.jobs = <<rn.overrides>>]
  /\ UNCHANGED <<trainerVars, fitVars, obsVars, hs, globalVars, es, exp, staticVars, ln>>

\* lines 457-473: _multirun, the sweep over the combinations
MultiRun ==
  /\ rn.pc = "multirun"
  /\ rn' = [rn EXCEPT !.pc = "ran", !.jobs = SweepJobs(rn.overrides)]
  /\ UNCHANGED <<trainerVars, fitVars, obsVars, hs, globalVars, es, exp, staticVars, ln>>

\* lines 501-503: the Hydra hooks are put back and run returns
RunReturn ==
  /\ rn.pc = "ran"
  /\ rn' = [rn EXCEPT !.pc = "returned", !.hooks = "hydra"]
  /\ UNCHANGED <<trainerVars, fitVars, obsVars, hs, globalVars, es, exp, staticVars, ln>>

InitDispatch == RnInit /\ FitIdle /\ EsIdle /\ ExpIdle /\ StaticIdle /\ LnIdle
  /\ HsIdle /\ GlobalIdle

NextDispatch ==
  \/ RunCall
  \/ SingleRun
  \/ MultiRun
  \/ RunReturn

SpecDispatch == InitDispatch /\ [][NextDispatch]_vars

(***************************************************************************)
(* Experimenter.load_configuration and Experimenter.hash                   *)
(*                                                                         *)
(* The overrides are given as a list of expressions and no keyword         *)
(* configs are given, so that _overrides returns the list as it is.  The   *)
(* configuration loader sets the entry named by each expression of a       *)
(* combination to its value.                                               *)
(***************************************************************************)
\* the expressions given to hash: the keys s and m.s, one or two values
HashExpressions ==
  {Entry(key, text) : key \in {<<"s">>, <<"m", ".", "s">>},
                      text \in {<<"1">>, <<"1", ",", "2">>}}

\* the exclude_keys of the Experimenter
HashExcludes == {<<>>, << <<"s">> >>, << <<"m", ".", "s">> >>}

\* the digits in their order
Ord ==
  [c \in {"0", "1", "2", "3", "4", "5", "6", "7", "8", "9"} |->
     CASE c = "0" -> 0 [] c = "1" -> 1 [] c = "2" -> 2 [] c = "3" -> 3
       [] c = "4" -> 4 [] c = "5" -> 5 [] c = "6" -> 6 [] c = "7" -> 7
       [] c = "8" -> 8 [] c = "9" -> 9]

\* the number a text of digits stands for
RECURSIVE Decimal(_)
Decimal(text) ==
  IF text = <<>> THEN 0
  ELSE 10 * Decimal(SubSeq(text, 1, Len(text) - 1)) + Ord[text[Len(text)]]

\* lines 332-335: the configuration with one combination of overrides
RECURSIVE LoadOne(_, _)
LoadOne(cfg, entries) ==
  IF entries = <<>> THEN cfg
  ELSE LET parts == Split(Head(entries), "=")
           path == KeyPath(parts[1])
       IN LoadOne([p \in DOMAIN cfg |->
                     IF p = path THEN Leaf(Decimal(parts[2])) ELSE cfg[p]],
                  Tail(entries))

\* a value load_configuration returns: one DictConfig or a list of them
OneConfig(cfg) == [list |-> FALSE, items |-> <<cfg>>]
ConfigList(cfgs) == [list |-> TRUE, items |-> cfgs]

\* line 338: returns[0] if len(returns) == 1 else returns
Returned1(returns) ==
  IF Len(returns) = 1 THEN OneConfig(returns[1]) ELSE ConfigList(returns)

\* lines 327-338
load_configuration(base, overrides) ==
  LET r == parse_overrides(overrides, all_keys(base))
  IN IF r.err # "" THEN [err |-> r.err, ret |-> ConfigList(<<>>)]
     ELSE [err |-> "",
           ret |-> Returned1([i \in 1 .. Len(r.tuples) |->
                                LoadOne(base, r.tuples[i])])]

\* lines 248-250: hash_config of any argument; the assertion of line 248
\* fails for an argument that is no DictConfig and no dict
HashConfigArg(arg, exclude_keys) ==
  IF arg.list THEN [err |-> "AssertionError", value |-> NoFingerprint]
  ELSE LET r == hash_config(arg.items[1], exclude_keys)
       IN [err |-> IF r.err THEN "KeyError" ELSE "", value |-> r.value]

\* line 347: [hash_config(cfg, self.exclude_keys) for c in cfg]
ListOfList(ret, exclude_keys) ==
  [i \in 1 .. Len(ret.items) |-> HashConfigArg(ret, exclude_keys)]

NoHash == [err |-> "", list |-> FALSE, values |-> <<>>]

\* the first exception of a list comprehension, "" when none is raised
FirstError(rs) ==
  IF \A i \in DOMAIN rs : rs[i].err = "" THEN ""
  ELSE LET first == CHOOSE i \in DOMAIN rs :
                      /\ rs[i].err # ""
                      /\ \A j \in 1 .. i - 1 : rs[j].err = ""
       IN rs[first].err

\* lines 340-347
hash(base, exclude_keys, overrides) ==
  LET loaded == load_configuration(base, overrides)
  IN IF loaded.err # "" THEN [NoHash EXCEPT !.err = loaded.err]
     ELSE IF ~loaded.ret.list
     THEN LET r == HashConfigArg(loaded.ret, exclude_keys)
          IN IF r.err # "" THEN [NoHash EXCEPT !.err = r.err]
             ELSE [NoHash EXCEPT !.values = <<r.value>>]
     ELSE LET rs == ListOfList(loaded.ret, exclude_keys)
          IN IF FirstError(rs) # "" THEN [NoHash EXCEPT !.err = FirstError(rs)]
             ELSE [err |-> "", list |-> TRUE,
                   values |-> [i \in DOMAIN rs |-> rs[i].value]]

HsInit ==
  \E cfg \in Configs, exclude_keys \in HashExcludes,
     overrides \in SeqsUpTo(HashExpressions, MaxOverrides) :
    hs = [configs |-> cfg, exclude_keys |-> exclude_keys,
          overrides |-> overrides, called |-> FALSE, result |-> NoHash]

\* hash(overrides) of an Experimenter with the base configuration
\* hs.configs and the exclude keys hs.exclude_keys
Hash ==
  /\ ~hs.called
  /\ hs' = [hs EXCEPT
              !.called = TRUE,
              !.result = hash(hs.configs, hs.exclude_keys, hs.overrides)]
  /\ UNCHANGED <<trainerVars, fitVars, obsVars, globalVars, es, exp,
                 staticVars, dispatchVars>>

InitHashOverrides ==
  /\ HsInit
  /\ FitIdle /\ EsIdle /\ ExpIdle /\ StaticIdle /\ DispatchIdle /\ GlobalIdle

NextHashOverrides == Hash

SpecHashOverrides == InitHashOverrides /\ [][NextHashOverrides]_vars

(***************************************************************************)
(* Trainer.save_checkpoint and the registry _CHECKPOINT_MANAGER            *)
(*                                                                         *)
(* id(x) of an object is a number and str(id(x)) its decimal digits.  The  *)
(* paths given name directories or nothing, never a file.  A checkpoint    *)
(* manager is identified by the order of its construction.  A thread that  *)
(* calls save_checkpoint can be suspended between the membership test of   *)
(* line 196 and the assignment of line 206.                                *)
(***************************************************************************)
MainThread == "t1"
Threads == {"t1", "t2"}

Model1 == <<"1", "6">>
Model2 == <<"3", "2">>
Optimizer1 == <<"4", "8">>

Cwd == <<"/">>
DirPaths == {<<"/", "d">>, <<"d">>, <<"/", "d", "1", "6">>}
OptimizerLists == {<<>>, <<Optimizer1>>}
ModelLists ==
  {<<Model1>>, <<Model1, Model1>>, <<Model1, Model2>>, <<Model2, Model1>>}

RECURSIVE StrLess(_, _)
StrLess(a, b) ==
  IF b = <<>> THEN FALSE
  ELSE IF a = <<>> THEN TRUE
  ELSE IF Head(a) # Head(b) THEN Ord[Head(a)] < Ord[Head(b)]
  ELSE StrLess(Tail(a), Tail(b))

RECURSIVE Concat(_)
Concat(strs) ==
  IF strs = <<>> THEN <<>> ELSE Head(strs) \o Concat(Tail(strs))

abspath(path) == IF Head(path) = "/" THEN path ELSE Cwd \o path

sorted(strs) == SortSeq(strs, LAMBDA a, b : StrLess(a, b))

footprint(dir_path, optimizers, models) ==
  dir_path \o Concat(sorted(optimizers)) \o Concat(sorted(models))

Range(s) == {s[i] : i \in DOMAIN s}

NoRegistry == [f \in {} |-> 0]
NoCall ==
  [pc |-> "idle", dir_path |-> <<>>, optimizers |-> <<>>, models |-> <<>>,
   footprint |-> <<>>, manager |-> 0]

CkInit ==
  ck = [registry |-> NoRegistry, made |-> {}, dirs |-> {}, calls |-> 0,
        th |-> [t \in Threads |-> NoCall]]

Returned(t) == ck.th[t].pc \in {"idle", "done"}

\* lines 179-195: the arguments are flattened, the directory is made and
\* the footprint is computed
SaveCheckpoint(t, dir, optimizers, models) ==
  /\ Returned(t)
  /\ ck.calls < MaxCalls
  /\ LET dir_path == abspath(dir)
     IN ck' = [ck EXCEPT
                 !.calls = @ + 1,
                 !.dirs = @ \cup {dir_path},
                 !.th[t] = [pc |-> "lookup", dir_path |-> dir_path,
                            optimizers |-> optimizers, models |-> models,
                            footprint |->
                              footprint(dir_path, optimizers, models),
                            manager |-> 0]]
  /\ UNCHANGED <<trainerVars, fitVars, obsVars, hs, bw, es, exp, staticVars,
                 dispatchVars>>

\* lines 196-198
Lookup(t) ==
  /\ ck.th[t].pc = "lookup"
  /\ ck' = IF ck.th[t].footprint \in DOMAIN ck.registry
             THEN [ck EXCEPT !.th[t].manager = ck.registry[ck.th[t].footprint],
                             !.th[t].pc = "save"]
             ELSE [ck EXCEPT !.th[t].pc = "create"]
  /\ UNCHANGED <<trainerVars, fitVars, obsVars, hs, bw, es, exp, staticVars,
                 dispatchVars>>

\* lines 199-206
Create(t) ==
  /\ ck.th[t].pc = "create"
  /\ LET c == ck.th[t]
         id == Cardinality(ck.made) + 1
     IN ck' = [ck EXCEPT
                 !.made = @ \cup {[id |-> id, directory |-> c.dir_path,
                                   optimizers |-> Range(c.optimizers),
                                   models |-> Range(c.models),
                                   footprint |-> c.footprint]},
                 !.registry = [f \in DOMAIN @ \cup {c.footprint} |->
                                 IF f = c.footprint THEN id ELSE @[f]],
                 !.th[t].manager = id,
                 !.th[t].pc = "save"]
  /\ UNCHANGED <<trainerVars, fitVars, obsVars, hs, bw, es, exp, staticVars,
                 dispatchVars>>

\* lines 207-215
ManagerSave(t) ==
  /\ ck.th[t].pc = "save"
  /\ ck' = [ck EXCEPT !.th[t].pc = "done"]
  /\ UNCHANGED <<trainerVars, fitVars, obsVars, hs, bw, es, exp, staticVars,
                 dispatchVars>>

InitCheckpoint ==
  /\ CkInit
  /\ FitIdle /\ EsIdle /\ ExpIdle /\ StaticIdle /\ DispatchIdle
  /\ HsIdle /\ BwIdle

\* one thread: the calls follow each other
NextCheckpoint ==
  \/ \E dir \in DirPaths, o \in OptimizerLists, m \in ModelLists :
       SaveCheckpoint(MainThread, dir, o, m)
  \/ Lookup(MainThread)
  \/ Create(MainThread)
  \/ ManagerSave(MainThread)

SpecCheckpoint == InitCheckpoint /\ [][NextCheckpoint]_vars

\* several training loops in one process: the calls interleave
NextCheckpointRace ==
  \/ \E t \in Threads, dir \in DirPaths, o \in OptimizerLists,
        m \in ModelLists :
       SaveCheckpoint(t, dir, o, m)
  \/ \E t \in Threads : Lookup(t)
  \/ \E t \in Threads : Create(t)
  \/ \E t \in Threads : ManagerSave(t)

SpecCheckpointRace == InitCheckpoint /\ [][NextCheckpointRace]_vars

(***************************************************************************)
(* Trainer.save_weights, Trainer.restore_weights and _BEST_WEIGHTS         *)
(*                                                                         *)
(* The objects a and b are keras layers and v is a tf.Variable; they live  *)
(* as long as the process, so that their id() are different.  The weights  *)
(* of an object are one number.  No optimizers are given.  Between the     *)
(* calls training changes the weights of the layers.                       *)
(***************************************************************************)
Layers == {"a", "b"}
Objects == Layers \cup {"v"}
Weights == 0 .. MaxWeight
NeverSaved == -1

\* id(i)
ObjectId == [i \in Objects |-> CASE i = "a" -> 16 [] i = "b" -> 32
                                 [] i = "v" -> 48]

\* lines 149 and 162: isinstance(i, keras.layers.Layer)
IsLayer(i) == i \in Layers

\* the values of models tried, already flattened
WeightArgs == SeqsUpTo(Objects, MaxModels)

NoWeights == [k \in {} |-> 0]

\* (variant: the first version of the weights is kept)
StoreOnce(cache, key, w) ==
  [k \in DOMAIN cache \cup {key} |-> IF k \in DOMAIN cache THEN cache[k] ELSE w]

\* line 151: _BEST_WEIGHTS[id(i)] = i.get_weights()
Store(cache, key, w) ==
  [k \in DOMAIN cache \cup {key} |-> IF k = key THEN w ELSE cache[k]]

\* lines 148-151: the cache after the loop over the models
RECURSIVE SaveEach(_, _, _)
SaveEach(cache, weights, models) ==
  IF models = <<>> THEN cache
  ELSE LET i == Head(models)
       IN SaveEach(IF IsLayer(i) THEN Store(cache, ObjectId[i], weights[i])
                   ELSE cache,
                   weights, Tail(models))

\* lines 161-165: the weights after the loop over the models
RECURSIVE RestoreEach(_, _, _)
RestoreEach(cache, weights, models) ==
  IF models = <<>> THEN weights
  ELSE LET i == Head(models)
       IN RestoreEach(cache,
                      IF IsLayer(i) /\ ObjectId[i] \in DOMAIN cache
                      THEN [weights EXCEPT ![i] = cache[ObjectId[i]]]
                      ELSE weights,
                      Tail(models))

\* saved[i] is the weights i had at the last save_weights call whose models
\* held the layer i; before and cacheBefore are the weights and the cache
\* before the last step
BwInit ==
  \E weights \in [Objects -> Weights] :
    bw = [weights |-> weights, cache |-> NoWeights,
          saved |-> [i \in Objects |-> NeverSaved],
          op |-> "none", models |-> <<>>,
          before |-> weights, cacheBefore |-> NoWeights]

\* lines 144-155, optimizers=None
SaveWeights(models) ==
  /\ bw' = [bw EXCEPT
              !.cache = SaveEach(bw.cache, bw.weights, models),
              !.saved = [i \in Objects |->
                           IF IsLayer(i) /\ i \in Range(models)
                           THEN bw.weights[i] ELSE @[i]],
              !.op = "save", !.models = models,
              !.before = bw.weights, !.cacheBefore = bw.cache]
  /\ UNCHANGED <<trainerVars, fitVars, obsVars, hs, ck, es, exp, staticVars,
                 dispatchVars>>

\* lines 157-170, optimizers=None
RestoreWeights(models) ==
  /\ bw' = [bw EXCEPT
              !.weights = RestoreEach(bw.cache, bw.weights, models),
              !.op = "restore", !.models = models,
              !.before = bw.weights, !.cacheBefore = bw.cache]
  /\ UNCHANGED <<trainerVars, fitVars, obsVars, hs, ck, es, exp, staticVars,
                 dispatchVars>>

\* a training step changes the weights of a layer
UpdateWeights(i, w) ==
  /\ bw.weights[i] # w
  /\ bw' = [bw EXCEPT
              !.weights[i] = w,
              !.op = "update", !.models = <<i>>,
              !.before = bw.weights, !.cacheBefore = bw.cache]
  /\ UNCHANGED <<trainerVars, fitVars, obsVars, hs, ck, es, exp, staticVars,
                 dispatchVars>>

InitWeights ==
  /\ BwInit
  /\ FitIdle /\ EsIdle /\ ExpIdle /\ StaticIdle /\ DispatchIdle
  /\ HsIdle /\ CkIdle

NextWeights ==
  \/ \E models \in WeightArgs : SaveWeights(models)
  \/ \E models \in WeightArgs : RestoreWeights(models)
  \/ \E i \in Layers, w \in Weights : UpdateWeights(i, w)

SpecWeights == InitWeights /\ [][NextWeights]_vars

(***************************************************************************)
(* Properties of Trainer.fit, checked under SpecFit                        *)
(***************************************************************************)
NonFinite == {"nan", "inf"}

\* C2: with terminate_on_nan enabled, an iteration whose optimize call
\* returned a NaN or infinite loss ends the loop at once: that iteration
\* does no train logging, no validation and no cadence callback, and no
\* optimize call with training=True is made after a non-finite loss.
NanHaltsLoop ==
  /\ (pc \in {"loop", "exit"} /\ terminate_on_nan
        /\ lastIter.loss \in NonFinite) =>
       /\ pc = "exit"
       /\ obs.exit = "nan"
       /\ ~lastIter.logged
       /\ ~lastIter.validated
       /\ ~lastIter.ticked
  /\ (pc # "idle" /\ terminate_on_nan) => ~obs.optAfterNonFinite

\* an infinite loss halted an iteration that was due for a cadence tick
NanHaltsLoopWitness ==
  /\ pc = "exit"
  /\ terminate_on_nan
  /\ lastIter.loss = "inf"
  /\ obs.optCalls = 2
  /\ lastIter.n % valid_freq = 0
  /\ valid_interval = 0

\* C3: whatever ends the loop (budget, end of data, non-finite loss, stop
\* request), the callback is invoked exactly once after the loop and before
\* fit returns, and never as a final callback while the loop runs; a NaN at
\* the third iteration with no cadence tick before it gives one callback in
\* total.
FinalCallbackOnce ==
  /\ pc \in {"loop", "exit"} => (obs.finalCb = 0 /\ ~obs.returned)
  /\ pc = "final" => obs.returned
  /\ obs.returned =>
       /\ obs.finalCb = 1
       /\ obs.cbCalls = obs.ticks + 1
       /\ obs.exit \in {"budget", "exhausted", "nan", "stopped"}
  /\ (obs.returned /\ obs.exit = "nan" /\ obs.optCalls = 3 /\ obs.ticks = 0) =>
       obs.cbCalls = 1

\* fit returned after a NaN at its third iteration, no tick before it
FinalCallbackOnceWitness ==
  /\ obs.returned
  /\ obs.exit = "nan"
  /\ obs.optCalls = 3
  /\ obs.ticks = 0
  /\ obs.cbCalls = 1

\* C4: when no loss was non-finite and no stop was requested, a fit over a
\* source of n batches calls optimize (training=True) min(m, n) times for
\* max_iter = m > 0, and n times for max_iter <= 0 with a source that has a
\* length, the budget then being n.
BudgetCount ==
  /\ (pc # "idle" /\ arg_max_iter <= 0 /\ train_ds.has_len) =>
       max_iter = train_ds.len
  /\ (obs.returned /\ ~obs.nonFinite /\ ~obs.stopReq) =>
       /\ arg_max_iter > 0 =>
            obs.optCalls = Min(arg_max_iter, train_ds.len)
       /\ (arg_max_iter <= 0 /\ train_ds.has_len) =>
            obs.optCalls = train_ds.len

\* a budget of 2 over a source of 3 batches ended the loop
BudgetCountWitness ==
  /\ obs.returned
  /\ ~obs.nonFinite
  /\ ~obs.stopReq
  /\ arg_max_iter = 2
  /\ train_ds.len = 3
  /\ obs.exit = "budget"
  /\ obs.optCalls = 2

\* C5: with valid_freq=10, valid_interval=0 and a validation set, validation
\* runs in an iteration exactly when its n_iter is a positive multiple of 10
\* (and the iteration was not ended by the budget check or by the non-finite
\* loss guard before the cadence test), however the clock advanced.
ValidationCadence ==
  (arg_valid_freq = ValidFreq10 /\ valid_interval = 0 /\ valid_ds
     /\ lastIter.n > 0) =>
    (lastIter.validated <=>
       (lastIter.reached /\ lastIter.n % ValidFreq10 = 0))

\* validation ran at iteration 20, the clock not having advanced since the
\* start of the fit call
ValidationCadenceWitness ==
  /\ pc = "loop"
  /\ arg_valid_freq = ValidFreq10
  /\ valid_interval = 0
  /\ lastIter.validated
  /\ lastIter.n = 2 * ValidFreq10
  /\ now = 0

\* C6: a cadence tick happens only in an iteration whose number is a
\* multiple of the effective valid_freq (1 when valid_interval > 0, else the
\* value passed, at least 1) and only when valid_interval seconds have
\* passed since the end of the previous tick (since the start of training
\* for the first one).
TickConditions ==
  LET eff == IF valid_interval > 0 THEN 1 ELSE Max(1, arg_valid_freq)
  IN /\ pc # "idle" => valid_freq = eff
     /\ lastIter.ticked =>
          /\ lastIter.n % eff = 0
          /\ lastIter.since >= valid_interval

\* a second tick of a fit call with valid_interval 1 and valid_freq 10
TickConditionsWitness ==
  /\ lastIter.ticked
  /\ valid_interval = 1
  /\ arg_valid_freq = ValidFreq10
  /\ obs.ticks = 2
  /\ lastIter.n % ValidFreq10 # 0

\* C7: when the callback of a cadence tick clears is_training, the loop is
\* left in that iteration, and the only thing that follows is the final
\* callback: no further optimize call, one more callback, and fit returns.
CallbackStopBreaks ==
  /\ [](lastIter.cbStops => (pc = "exit" /\ obs.exit = "stopped"))
  /\ [][(obs.cbStopped /\ pc \in {"loop", "exit"}) =>
          /\ pc = "exit"
          /\ pc' = "final"
          /\ obs'.optCalls = obs.optCalls
          /\ obs'.cbCalls = obs.cbCalls + 1
          /\ obs'.finalCb = 1]_vars

\* the callback of the first tick stopped a loop that had batches left
CallbackStopBreaksWitness ==
  /\ pc = "exit"
  /\ lastIter.cbStops
  /\ obs.ticks = 1
  /\ cur_iter + 1 < train_ds.len
  /\ ~OverBudget(max_iter, cur_iter + 1)

\* C8: once is_training has been cleared during fit, in the callback or in
\* an optimize call, no optimize call (training=True) of a later iteration
\* is made.
NoStepAfterStop == ~obs.optAfterStop

\* C9: is_training is false whenever no fit call is running (on a new
\* Trainer and after fit has returned, for every exit reason) and true while
\* the loop of fit is executing.
IdleAfterFit ==
  /\ pc = "idle" => ~is_training
  /\ (pc = "loop" /\ ~obs.stopReq) => is_training

\* C23: with terminate_on_nan=False the NaN/Inf guard does not act: neither
\* a NaN nor an infinite loss ends the loop.
GuardOnlyWhenEnabled ==
  (pc \in {"loop", "exit"} /\ ~terminate_on_nan) => obs.exit # "nan"

\* C26: on every validation-cadence tick the callback is called exactly
\* once, with a validation set and without one; a validation is made, and a
\* loss appended to current_valid_loss, only when a validation set is given.
CallbackAtEveryTick ==
  /\ [](pc \in {"loop", "exit"} =>
          /\ obs.cbCalls = obs.ticks
          /\ current_valid_loss = (IF valid_ds THEN obs.ticks ELSE 0)
          /\ lastIter.ticked => (lastIter.validated <=> valid_ds)
          /\ ~lastIter.ticked => ~lastIter.validated)
  /\ [][(pc = "loop" /\ pc' \in {"loop", "exit"}) =>
          /\ obs'.cbCalls - obs.cbCalls = (IF lastIter'.ticked THEN 1 ELSE 0)
          /\ current_valid_loss' - current_valid_loss
               = (IF lastIter'.ticked /\ valid_ds THEN 1 ELSE 0)]_vars

\* two ticks without a validation set: two callbacks, no validation loss
CallbackAtEveryTickWitness ==
  /\ pc = "loop"
  /\ ~valid_ds
  /\ lastIter.ticked
  /\ obs.ticks = 2
  /\ obs.cbCalls = 2
  /\ current_valid_loss = 0

\* C28: each fit call increases n_iter by exactly the number of optimize
\* calls it made with training=True, for every exit reason, so that the
\* n_iter values passed to optimize are consecutive also across fit calls.
CounterCountsSteps ==
  pc \in {"loop", "exit", "final"} => n_iter = obs.nStart + obs.optCalls

(***************************************************************************)
(* Properties of Trainer.early_stop, checked under SpecEarlyStop           *)
(***************************************************************************)
\* C10: early_stop returns SIGNAL_BEST for fewer than max(2, min_epoch)
\* losses; otherwise, with generalization = losses[-1]/min(losses[:-1]) - 1
\* and error = generalization/progression (progression 1 for
\* progress_length <= 1), SIGNAL_TERMINATE when error >= -|threshold|, else
\* SIGNAL_BEST when generalization < 0, else nothing; so [1.0, 0.9, 0.95]
\* with threshold 0.01 gives TERMINATE and [1.0, 0.9, 0.5] gives BEST.
EarlyStopSignals ==
  es.called =>
    LET losses == es.losses
        last == losses[Len(losses)]
        best == SeqMin(ButLast(losses))
        t == es.threshold
        \* generalization = (last - best)/best, best > 0
        error == FDiv(Frac(last - best, best),
                      Progression(losses, es.progress_length))
    IN /\ Len(losses) < Max(2, es.min_epoch) => es.result = "SIGNAL_BEST"
       /\ Len(losses) >= Max(2, es.min_epoch) =>
            es.result = IF FGe(error, Frac(-Abs(t.n), t.d))
                        THEN "SIGNAL_TERMINATE"
                        ELSE IF last < best THEN "SIGNAL_BEST" ELSE "None"
       /\ (Len(losses) >= Max(2, es.min_epoch) /\ es.progress_length <= 1) =>
            es.result = IF (last - best) * t.d >= -Abs(t.n) * best
                        THEN "SIGNAL_TERMINATE"
                        ELSE "SIGNAL_BEST"
       /\ (losses = <<100, 90, 95>> /\ t = Frac(1, 100)
             /\ es.progress_length = 0 /\ es.min_epoch = -1) =>
            es.result = "SIGNAL_TERMINATE"
       /\ (losses = <<100, 90, 50>> /\ es.progress_length = 0
             /\ es.min_epoch = -1) =>
            es.result = "SIGNAL_BEST"

\* C24: as the docstring of early_stop says, with progress_length < 2 and
\* at least 2 losses (past min_epoch), GL = losses[-1]/min(losses[:-1]) - 1
\* decides: the best model is signalled when GL <= 0, TERMINATE is not
\* returned when GL <= threshold, and TERMINATE is returned only when
\* GL > threshold.
DocumentedRule ==
  (es.called /\ es.progress_length < 2
     /\ Len(es.losses) >= Max(2, es.min_epoch)) =>
    LET last == es.losses[Len(es.losses)]
        best == SeqMin(ButLast(es.losses))
        t == es.threshold
        \* GL = (last - best)/best with best > 0
        overThreshold == (last - best) * t.d > t.n * best
    IN /\ last <= best => es.branch = "SIGNAL_BEST"
       /\ ~overThreshold => es.branch # "SIGNAL_TERMINATE"
       /\ es.branch = "SIGNAL_TERMINATE" => overThreshold

\* C25: with progress_length > 1 and strictly positive losses the
\* progression 10 * (mean(window)/min(window) - 1) is never zero, so
\* error = generalization / progression never divides by zero.
WindowNonDegenerate ==
  (es.called /\ es.progress_length > 1
     /\ Len(es.losses) >= Max(2, es.min_epoch)
     /\ \A i \in DOMAIN es.losses : es.losses[i] > 0) =>
    LET progression == Progression(es.losses, es.progress_length)
    IN /\ progression.n # 0
       /\ FDiv(Generalization(es.losses), progression).d # 0

(***************************************************************************)
(* Properties of Experimenter._run, checked under SpecRun                  *)
(***************************************************************************)
Called(hook) == \E i \in 1 .. Len(exp.last.log) : exp.last.log[i] = hook

\* the last run began on a non-empty model directory whose manifest holds
\* another digest than the directory's, with consistent_model enabled
MismatchAtStart ==
  /\ exp.runs > 0
  /\ exp.consistent_model
  /\ HasModel(exp.last.pre_dir)
  /\ exp.last.pre_md5.exists
  /\ Strip(exp.last.pre_md5) # md5_folder(exp.last.pre_dir)

\* C1: with consistent_model enabled, a run that finds a non-empty model
\* directory and a manifest whose content (read as line 405 reads it, white
\* space around the digest dropped) differs from the recomputed MD5 of the
\* directory fails with an error, calls neither on_load_model nor on_train
\* and leaves the manifest file as it was.
IntegrityGate ==
  MismatchAtStart =>
    /\ exp.last.result = "AssertionError"
    /\ ~Called("on_load_model")
    /\ ~Called("on_train")
    /\ ~Called("manifest")
    /\ exp.last.post_md5 = exp.last.pre_md5

\* a second run was refused: its manifest, in the form _run writes it, holds
\* the digest of another content than the one found in the model directory
IntegrityGateWitness ==
  /\ MismatchAtStart
  /\ exp.runs = 2
  /\ exp.last.pre_md5 \in {Written(md5_folder(d)) : d \in DirStates}
  /\ exp.last.result = "AssertionError"
  /\ exp.last.log = <<"snapshot", "on_load_data">>

\* the directory the last run began on was there and held files
RestorePath ==
  exp.last.pre_dir.exists /\ exp.last.pre_dir.files # NoFiles

\* the steps of a complete run, in order
StepsOf(restore, manifested) ==
  <<"snapshot", "on_load_data">>
    \o (IF restore THEN <<"on_load_model">> ELSE <<"on_create_model">>)
    \o <<"on_train">>
    \o (IF manifested THEN <<"manifest">> ELSE <<>>)

\* C17: every _run performs its steps in the fixed order config snapshot,
\* on_load_data, then on_load_model when the model directory exists and is
\* non-empty and on_create_model otherwise, then on_train, then the manifest
\* write (made when the model directory is non-empty after training); a run
\* that fails has performed a beginning of this sequence; on_create_model
\* and on_load_model are never both called in one run.
StepOrder ==
  exp.runs > 0 =>
    LET full == StepsOf(RestorePath,
                        exp.last.post_dir.exists
                          /\ exp.last.post_dir.files # NoFiles)
    IN /\ IsPrefix(exp.last.log, full)
       /\ Len(exp.last.log) >= 2
       /\ exp.last.result = "ok" <=> exp.last.log = full
       /\ ~(Called("on_load_model") /\ Called("on_create_model"))

\* a second run restored the model, trained and wrote the manifest
StepOrderWitness ==
  /\ exp.runs = 2
  /\ RestorePath
  /\ exp.last.log = <<"snapshot", "on_load_data", "on_load_model",
                      "on_train", "manifest">>

\* C18: on the restore path, when on_load_model returns None (as the
\* default hook does) the run fails with an error before on_train is called
\* and the manifest is not rewritten.
RestoreContract ==
  (exp.runs > 0 /\ Called("on_load_model") /\ exp.last.returned = "None") =>
    /\ RestorePath
    /\ exp.last.result = "RuntimeError"
    /\ ~Called("on_train")
    /\ ~Called("manifest")
    /\ exp.last.post_md5 = exp.last.pre_md5

\* the integrity check passed and on_load_model returned None
RestoreContractWitness ==
  /\ exp.runs = 2
  /\ exp.consistent_model
  /\ exp.last.pre_md5 = Written(md5_folder(exp.last.pre_dir))
  /\ Called("on_load_model")
  /\ exp.last.returned = "None"
  /\ exp.last.result = "RuntimeError"

\* the last run completed and left a non-empty model directory
LeftModel ==
  /\ exp.runs > 0
  /\ exp.last.result = "ok"
  /\ exp.last.post_dir.exists
  /\ exp.last.post_dir.files # NoFiles

\* C19: after every _run that completes without error and leaves a
\* non-empty model directory, the manifest holds the MD5 of the directory as
\* it is at the end of that run; a following run, with the model directory
\* and the manifest unchanged in between, passes the integrity check and
\* reaches on_load_model.
ManifestRefreshed ==
  /\ [](LeftModel =>
          /\ exp.last.post_md5.exists
          /\ exp.last.post_md5.digest = md5_folder(exp.last.post_dir)
          /\ ~exp.last.post_md5.ws)
  /\ [][(LeftModel /\ exp.dir = exp.last.post_dir
           /\ exp.md5 = exp.last.post_md5 /\ exp'.runs = exp.runs + 1) =>
          /\ exp'.last.result # "AssertionError"
          /\ \E i \in 1 .. Len(exp'.last.log) :
               exp'.last.log[i] = "on_load_model"]_vars

\* a run resumed, trained on and left another content than it found, and
\* the manifest holds the digest of the new content
ManifestRefreshedWitness ==
  /\ LeftModel
  /\ exp.consistent_model
  /\ RestorePath
  /\ exp.last.pre_dir # exp.last.post_dir
  /\ exp.last.pre_md5 # exp.last.post_md5
  /\ exp.md5 = Written(md5_folder(exp.dir))
  /\ exp.dir = exp.last.post_dir

(***************************************************************************)
(* Properties of Experimenter.hash_config, checked under SpecHash          *)
(***************************************************************************)
ExcludedPaths == {KeyPath(hc.exclude_keys[i]) : i \in 1 .. Len(hc.exclude_keys)}

Excluded(path) == \E k \in ExcludedPaths : IsPrefix(k, path)

\* the two configurations agree on every entry outside the excluded keys
SameExceptExcluded ==
  \A p \in (DOMAIN hc.c1) \cup (DOMAIN hc.c2) :
    ~Excluded(p) => (p \in DOMAIN hc.c1 /\ p \in DOMAIN hc.c2
                       /\ hc.c1[p] = hc.c2[p])

\* every exclude key names an entry of the configuration
KeysStored(cfg) == \A k \in ExcludedPaths : k \in DOMAIN cfg

\* C11: two configurations that are identical except for the values stored
\* under the excluded keys (plain or dot-path keys) get the same fingerprint
\* from hash_config with that exclude list, and a repeated call on the same
\* configuration returns the same fingerprint again.  (Stated for exclude
\* keys that all name an entry of both configurations.)
FingerprintExclusion ==
  /\ (hc.calls >= 2 /\ SameExceptExcluded /\ KeysStored(hc.c1)
        /\ KeysStored(hc.c2)) =>
       (~hc.r1.err /\ ~hc.r2.err /\ hc.r1.value = hc.r2.value)
  /\ (hc.calls = 3 /\ KeysStored(hc.c1)) =>
       (~hc.again.err /\ hc.again = hc.r1)

\* the exclude list without its i-th key
Without(keys, i) == SubSeq(keys, 1, i - 1) \o SubSeq(keys, i + 1, Len(keys))

\* C12: an exclude key (plain or dot path) that names no entry of the
\* configuration is tolerated by hash_config: no error is raised and the
\* fingerprint is the one computed without that key.
AbsentKeyTolerated ==
  hc.calls >= 1 =>
    \A i \in 1 .. Len(hc.exclude_keys) :
      KeyPath(hc.exclude_keys[i]) \notin DOMAIN hc.c1 =>
        /\ ~hc.r1.err
        /\ hc.r1 = hash_config(hc.c1, Without(hc.exclude_keys, i))

(***************************************************************************)
(* Properties of Experimenter.parse_overrides, checked under SpecOverrides *)
(***************************************************************************)
\* key and value text of the i-th override expression
ExprKey(i) ==
  LET e == po.overrides[i]
      eq == CHOOSE j \in 1 .. Len(e) : e[j] = "="
  IN SubSeq(e, 1, eq - 1)

ExprText(i) ==
  LET e == po.overrides[i]
      eq == CHOOSE j \in 1 .. Len(e) : e[j] = "="
  IN SubSeq(e, eq + 1, Len(e))

\* the number of comma-separated values of a text: one more than its commas
NumValues(text) == 1 + Cardinality({j \in 1 .. Len(text) : text[j] = ","})

\* the values of a text with the number of times each occurs
ValueCount(text, v) ==
  LET vs == Split(text, ",")
  IN Cardinality({j \in 1 .. Len(vs) : vs[j] = v})

RECURSIVE ProductOf(_, _)
ProductOf(f, n) == IF n = 0 THEN 1 ELSE f[n] * ProductOf(f, n - 1)

AllKnown ==
  \A i \in 1 .. Len(po.overrides) : ExprKey(i) \in all_keys(po.configs)

\* the combinations: one value of each expression, in the order of the
\* expressions
Combinations ==
  LET n == Len(po.overrides)
      values(i) == LET vs == Split(ExprText(i), ",")
                   IN {vs[j] : j \in 1 .. Len(vs)}
  IN {c \in [1 .. n -> UNION {values(i) : i \in 1 .. n}] :
        \A i \in 1 .. n : c[i] \in values(i)}

\* C13: parse_overrides returns the Cartesian product of the expressions:
\* as many tuples as the product of the numbers of comma-separated values,
\* each tuple holding one key=value entry per expression in the order of the
\* expressions, and every combination of one value per expression once (as
\* often as its values are repeated in the expressions, so exactly once when
\* no expression repeats a value).
OverrideProduct ==
  (po.called /\ AllKnown) =>
    LET n == Len(po.overrides)
        tuples == po.result.tuples
    IN /\ po.result.err = ""
       /\ Len(tuples) = ProductOf([i \in 1 .. n |-> NumValues(ExprText(i))], n)
       /\ \A k \in 1 .. Len(tuples) :
            /\ Len(tuples[k]) = n
            /\ \E c \in Combinations :
                 tuples[k] = [i \in 1 .. n |-> Entry(ExprKey(i), c[i])]
       /\ \A c \in Combinations :
            LET t == [i \in 1 .. n |-> Entry(ExprKey(i), c[i])]
            IN Cardinality({k \in 1 .. Len(tuples) : tuples[k] = t})
                 = ProductOf([i \in 1 .. n |->
                                ValueCount(ExprText(i), c[i])], n)

\* two expressions of two values each give the four combinations
OverrideProductWitness ==
  /\ po.called
  /\ po.overrides = <<Entry(<<"s">>, <<"1", ",", "2">>),
                      Entry(<<"m", ".", "s">>, <<"1", ",", "2">>)>>
  /\ po.result.tuples =
       << <<Entry(<<"s">>, <<"1">>), Entry(<<"m", ".", "s">>, <<"1">>)>>,
          <<Entry(<<"s">>, <<"1">>), Entry(<<"m", ".", "s">>, <<"2">>)>>,
          <<Entry(<<"s">>, <<"2">>), Entry(<<"m", ".", "s">>, <<"1">>)>>,
          <<Entry(<<"s">>, <<"2">>), Entry(<<"m", ".", "s">>, <<"2">>)>> >>

\* C14: parse_overrides fails with an error that names the offending key
\* whenever the key of some override is not among the dot-joined keys of the
\* base configuration, and then returns no override tuple; when every key is
\* known it does not fail.
UnknownKeyRejected ==
  po.called =>
    /\ ~AllKnown =>
         /\ po.result.err = "AssertionError"
         /\ \E i \in 1 .. Len(po.overrides) :
              /\ ExprKey(i) \notin all_keys(po.configs)
              /\ po.result.key = ExprKey(i)
         /\ po.result.tuples = <<>>
    /\ AllKnown => po.result.err = ""

\* the second expression overrides a key the configuration does not have
UnknownKeyRejectedWitness ==
  /\ po.called
  /\ Len(po.overrides) = 2
  /\ ExprKey(1) \in all_keys(po.configs)
  /\ ExprKey(2) = <<"m", ".", "s">>
  /\ <<"m">> \in all_keys(po.configs)
  /\ po.result.err = "AssertionError"
  /\ po.result.key = <<"m", ".", "s">>

(***************************************************************************)
(* Properties of ParallelLauncher.launch, checked under SpecLaunch         *)
(***************************************************************************)
NoJobRaises == \A idx \in DOMAIN ln.raises : ~ln.raises[idx]

\* what sequential execution returns: the JobReturn of job 0, 1, ...
SequentialRuns == [k \in 1 .. ln.n |-> JobReturn(k - 1)]

\* C15: launch returns the job results in job-index order whatever the
\* order in which the pool workers complete their jobs: with ncpu > 1 the
\* returned list is the one sequential execution (ncpu <= 1) returns, and
\* sequential execution runs the jobs one after another in input order.
DispatchOrderInvariance ==
  /\ (ln.pc = "returned" /\ NoJobRaises) => ln.runs = SequentialRuns
  /\ (ln.pc \in {"seq", "returned", "raised"} /\ ~UsesPool(ln.ncpu)) =>
       /\ Running = {}
       /\ \A k \in 1 .. Len(ln.results) : ln.results[k] = TaskResult(k - 1)
       /\ \A idx \in Pending : idx >= Len(ln.results)

\* the pool completed job 2 before job 0 and launch has returned
DispatchOrderInvarianceWitness ==
  /\ ln.pc = "returned"
  /\ UsesPool(ln.ncpu)
  /\ ln.n = 3
  /\ ln.results[1] = TaskResult(2)
  /\ ln.results[3] = TaskResult(0)
  /\ ln.runs = SequentialRuns

\* C16: a job that fails does not abort its sibling jobs: when launch has
\* ended, every other job of the sweep has been run to completion, with
\* ncpu > 1 and with ncpu <= 1.
SiblingsNotAborted ==
  ln.pc \in {"returned", "raised"} =>
    \A idx \in DOMAIN ln.job : ~ln.raises[idx] => ln.job[idx] = "done"

(***************************************************************************)
(* Properties of Experimenter.run, checked under SpecDispatch              *)
(***************************************************************************)
\* some override given to run holds more than one value (key=v1,v2,...)
MultiValued ==
  \E i \in 1 .. Len(rn.overrides) :
    \E j \in 1 .. Len(rn.overrides[i]) : rn.overrides[i][j] = ","

\* C20: when run is given a multi-valued override and is dispatched as a
\* single run (no multirun flag), it fails with an explicit error and runs
\* no job at all.
SingleRunRefused ==
  (MultiValued /\ ~rn.multirun) =>
    /\ rn.jobs = <<>>
    /\ rn.pc \notin {"ran", "returned"}
    /\ rn.pc \notin {"init", "run"} =>
         (rn.pc = "raised" /\ rn.error = "RuntimeError")

\* a single run with the overrides s=1 and m.s=1,2 was refused
SingleRunRefusedWitness ==
  /\ ~rn.multirun
  /\ rn.overrides = <<Entry(<<"s">>, <<"1">>),
                      Entry(<<"m", ".", "s">>, <<"1", ",", "2">>)>>
  /\ rn.pc = "raised"
  /\ rn.error = "RuntimeError"
  /\ rn.jobs = <<>>

\* C30: whenever run ends, by returning or by an error raised from the
\* dispatched run, Hydra.run and Hydra.multirun are again the functions
\* that were installed before the call.
HooksRestored ==
  rn.pc \in {"returned", "raised"} => rn.hooks = "hydra"

(***************************************************************************)
(* Properties of Trainer.save_checkpoint, checked under SpecCheckpoint and *)
(* SpecCheckpointRace                                                      *)
(***************************************************************************)
ManagerKey(m) == <<m.directory, m.optimizers, m.models>>
CallKey(c) == <<c.dir_path, Range(c.optimizers), Range(c.models)>>
HasManager(t) == ck.th[t].pc \in {"save", "done"}

\* C21: after any sequence of save_checkpoint calls there is one manager
\* per directory and identity set of optimizers and models: no two managers
\* were made for the same directory and objects, a call uses a manager made
\* for its own directory and objects, and a call leaves the entries already
\* in the registry as they are.
OneManagerPerFootprint ==
  /\ [](/\ \A a, b \in ck.made :
             ManagerKey(a) = ManagerKey(b) => a.id = b.id
        /\ \A t \in Threads :
             HasManager(t) =>
               \E m \in ck.made : /\ m.id = ck.th[t].manager
                                  /\ ManagerKey(m) = CallKey(ck.th[t]))
  /\ [][\A f \in DOMAIN ck.registry :
          f \in DOMAIN ck'.registry /\ ck'.registry[f] = ck.registry[f]]_vars

\* C22: when two save_checkpoint calls for the same footprint interleave,
\* one manager is made for that footprint and both calls save through it.
LookupOrCreateAtomic ==
  /\ \A a, b \in ck.made : a.footprint = b.footprint => a.id = b.id
  /\ \A s, t \in Threads :
       (HasManager(s) /\ HasManager(t)
          /\ ck.th[s].footprint = ck.th[t].footprint) =>
         ck.th[s].manager = ck.th[t].manager

(***************************************************************************)
(* Properties of Experimenter.hash, checked under SpecHashOverrides        *)
(***************************************************************************)
\* the configurations the overrides resolve to, in product order
Resolved ==
  LET tuples == parse_overrides(hs.overrides, all_keys(hs.configs)).tuples
  IN [i \in 1 .. Len(tuples) |-> LoadOne(hs.configs, tuples[i])]

\* C29: hash with overrides that resolve to several configurations returns
\* the list of their fingerprints in product order, the i-th being
\* hash_config of the i-th configuration with the excluded keys; with
\* overrides that resolve to one configuration it returns the fingerprint
\* of that configuration.
HashPerConfiguration ==
  (/\ hs.called
   /\ parse_overrides(hs.overrides, all_keys(hs.configs)).err = ""
   /\ \A i \in DOMAIN Resolved :
        ~hash_config(Resolved[i], hs.exclude_keys).err) =>
    /\ hs.result.err = ""
    /\ hs.result.values =
         [i \in DOMAIN Resolved |->
            hash_config(Resolved[i], hs.exclude_keys).value]
    /\ hs.result.list <=> Len(Resolved) # 1

(***************************************************************************)
(* Properties of the weight cache, checked under SpecWeights               *)
(***************************************************************************)
\* the entry of the object i in a cache, NeverSaved when there is none
Snapshot(cache, i) ==
  IF ObjectId[i] \in DOMAIN cache THEN cache[ObjectId[i]] ELSE NeverSaved

\* C27: restore_weights sets the weights of a layer it is given to the
\* weights the layer had at the most recent save_weights that included it
\* and leaves a layer that was never saved, and every object it is not
\* given, unchanged; save_weights and restore_weights never change the
\* cached snapshot of an object they are not given.
WeightCacheContract ==
  /\ bw.op = "restore" =>
       /\ \A i \in Objects :
            bw.weights[i] =
              IF IsLayer(i) /\ i \in Range(bw.models)
                   /\ bw.saved[i] # NeverSaved
              THEN bw.saved[i] ELSE bw.before[i]
       /\ bw.cache = bw.cacheBefore
  /\ bw.op = "save" =>
       /\ \A i \in Objects \ Range(bw.models) :
            Snapshot(bw.cache, i) = Snapshot(bw.cacheBefore, i)
       /\ bw.weights = bw.before

\* a, last saved with the weights 2 and trained to 0 since, is restored to
\* 2, while b, never saved, and v keep their weights
WeightCacheContractWitness ==
  /\ bw.op = "restore"
  /\ bw.models = <<"b", "a">>
  /\ bw.saved = [i \in Objects |-> IF i = "a" THEN 2 ELSE NeverSaved]
  /\ bw.before = [i \in Objects |-> IF i = "b" THEN 1 ELSE 0]
  /\ bw.weights =
       [i \in Objects |-> IF i = "a" THEN 2 ELSE IF i = "b" THEN 1 ELSE 0]

====
